---- MODULE Spec2Model ----
(***************************************************************************)
(* Block-range extraction pipeline of tobschcom/gtp:                       *)
(*   backend/airflow/dags/dag_pgn.py      run_nader_super (the driver)     *)
(*   backend/src/adapters/adapter_utils.py  fetch_and_process_range and    *)
(*                                          the functions it calls         *)
(* NodeAdapter.extract_raw and DbConnector.upsert_table are not part of    *)
(* the sources at hand; they are modelled from the design document.        *)
(* Durations are whole seconds.                                            *)
(***************************************************************************)
EXTENDS Integers, Sequences, FiniteSets, TLC

VARIABLES
    threads,          \* load_params['threads']
    threads0,         \* the value threads was initialised with
    dpc,              \* position of run_nader_super
    error,            \* exception that left run_nader_super ("" if none)
    exhaustions,      \* MaxWaitTimeExceededException caught by the driver so far
    calls,            \* calls of adapter.extract_raw so far
    slept,            \* seconds run_nader_super has spent in time.sleep
    chain,            \* adapter_params['chain'] as seen by fetch_and_process_range
    ranges,           \* the ranges of the current extract_raw call, ascending
    pc,               \* per range: position of fetch_and_process_range
    base_wait_time,   \* per range: local base_wait_time
    fails,            \* per range: attempts that ended in the except clause
    df,               \* per range: local df (raw table)
    df_prep,          \* per range: local df_prep (canonical table)
    s3,               \* keys present in the bucket
    store,            \* destination table: tx_hash -> canonical row
    envfault,         \* some RPC / S3 / store call has failed so far
    probe             \* last application of a pure function (function-level specification)

vars == <<threads, threads0, dpc, error, exhaustions, calls, slept, chain, ranges, pc,
          base_wait_time, fails, df, df_prep, s3, store, envfault, probe>>

----------------------------------------------------------------------------
(* Bounds of the model *)

MaxThreads == 3        \* largest initial load_params['threads']
LatestBlock == 4       \* w3.eth.block_number
batch_size == 2        \* load_params['batch_size']
JitterSteps == 1       \* random.uniform(0, 0.1*wait) is drawn from a grid of JitterSteps+1 points
MaxBatch == 3          \* longest table of the function-level specification

(* Program constants *)

base_wait == 5         \* base_wait_time = 5
max_wait_time == 300   \* max_wait_time = 300
cooldown == 300        \* time.sleep(300) of run_nader_super

Max(a, b) == IF a >= b THEN a ELSE b
Min(a, b) == IF a <= b THEN a ELSE b

----------------------------------------------------------------------------
(* Python values held in a raw record.  A string is its sequence of        *)
(* characters, each the digit value it has in base 36 ('0'..'9' = 0..9,     *)
(* 'a'..'z' = 10..35), 36 for '.'; pre says that the string starts with    *)
(* "0x".  A float that is no integer is held in tenths (kind "dec"); the   *)
(* decimal strings of the model have one digit after the point.            *)

Str(pre, cs) == [kind |-> "str", pre |-> pre, cs |-> cs, n |-> 0]
IntV(n) == [kind |-> "int", pre |-> FALSE, cs |-> <<>>, n |-> n]
NoneV == [kind |-> "none", pre |-> FALSE, cs |-> <<>>, n |-> 0]
NaN == [kind |-> "nan", pre |-> FALSE, cs |-> <<>>, n |-> 0]
DecV(t) == [kind |-> "dec", pre |-> FALSE, cs |-> <<>>, n |-> t]
Point == 36
\* the number that is t tenths
Num(t) == IF t % 10 = 0 THEN IntV(t \div 10) ELSE DecV(t)
Tenths(v) == IF v.kind = "dec" THEN v.n ELSE 10 * v.n

\* str(x) as applied by df[col].apply(str)
PyStr(v) ==
    CASE v.kind = "str" -> v
      [] v.kind = "none" -> Str(FALSE, <<23, 24, 23, 14>>)      \* 'None'
      [] v.kind = "nan" -> Str(FALSE, <<23, 10, 23>>)           \* 'nan'
      [] OTHER -> Str(FALSE, <<v.n>>)                           \* small ints print as one digit

RECURSIVE Digits(_, _)
Digits(cs, base) ==
    IF cs = <<>> THEN 0
    ELSE Digits(SubSeq(cs, 1, Len(cs) - 1), base) * base + cs[Len(cs)]

\* int(x, 16) raises ValueError unless every character is a hex digit
IsHex(v) == v.kind = "str" /\ v.cs # <<>> /\ \A i \in 1..Len(v.cs) : v.cs[i] < 16
\* float(x) of a string: decimal digits, or 'nan'
IsDec(v) == v.kind = "str" /\ ~v.pre /\ v.cs # <<>> /\ \A i \in 1..Len(v.cs) : v.cs[i] < 10
IsNanText(v) == v.kind = "str" /\ ~v.pre /\ v.cs = <<23, 10, 23>>
\* digits '.' digit
IsDecimal(v) ==
    /\ v.kind = "str" /\ ~v.pre /\ Len(v.cs) >= 3
    /\ v.cs[Len(v.cs) - 1] = Point
    /\ \A i \in 1..Len(v.cs) : i # Len(v.cs) - 1 => v.cs[i] < 10
\* float(x) / the float parser of pandas on a string that IsDec or IsDecimal
FloatOf(v) ==
    IF IsDecimal(v)
    THEN Num(10 * Digits(SubSeq(v.cs, 1, Len(v.cs) - 2), 10) + v.cs[Len(v.cs)])
    ELSE IntV(Digits(v.cs, 10))

----------------------------------------------------------------------------
(* The node: block b holds one transaction unless b is a multiple of 4.    *)
(* Transaction and receipt are dictionaries (functions on their keys).     *)
(* The columns from, to, gas, value and input are carried like gasPrice    *)
(* and are left out.                                                       *)

TxObject(b) ==
    [hash |-> IntV(b), blockNumber |-> IntV(b), gasPrice |-> IntV(2)]

Receipt(b) ==
    LET common == [transactionHash |-> IntV(b), blockNumber |-> IntV(b),
                   gasUsed |-> IntV(3), status |-> IntV(1)]
        with(l1) == [k \in DOMAIN common \cup DOMAIN l1 |->
                        IF k \in DOMAIN l1 THEN l1[k] ELSE common[k]]
    IN  CASE b % 4 = 1 -> with([l1Fee |-> Str(TRUE, <<1, 0>>),          \* "0x10"
                                l1GasUsed |-> Str(TRUE, <<2>>),         \* "0x2"
                                l1GasPrice |-> Str(TRUE, <<3>>),        \* "0x3"
                                l1FeeScalar |-> Str(FALSE, <<1>>)])     \* "1"
          [] b % 4 = 2 -> with([l1Fee |-> Str(FALSE, <<7>>)])           \* "7"
          [] OTHER -> with([l1Fee |-> NoneV])                           \* None

GetBlock(b) ==
    [timestamp |-> IntV(b),
     transactions |-> IF b % 4 = 0 THEN <<>> ELSE <<TxObject(b)>>]

\* HexBytes.hex(): the hash as a "0x.." string (hashes are one hex digit long)
HexOf(v) == Str(TRUE, <<v.n>>)

\* merged_dict = {**receipt, **tx}
transaction_wins(receipt, tx) ==
    [k \in DOMAIN receipt \cup DOMAIN tx |-> IF k \in DOMAIN tx THEN tx[k] ELSE receipt[k]]
receipt_wins(receipt, tx) ==
    [k \in DOMAIN receipt \cup DOMAIN tx |-> IF k \in DOMAIN receipt THEN receipt[k] ELSE tx[k]]
merge_dicts(receipt, tx) == transaction_wins(receipt, tx)

\* one pass of the loop body of fetch_block_transaction_details
merged_dict(receipt, tx, block_timestamp) ==
    LET m == merge_dicts(receipt, tx)
    IN  [k \in DOMAIN m \cup {"hash", "block_timestamp"} |->
            CASE k = "hash" -> HexOf(tx["hash"])
              [] k = "block_timestamp" -> block_timestamp
              [] OTHER -> m[k]]

fetch_block_transaction_details(block) ==
    [i \in 1..Len(block.transactions) |->
        merged_dict(Receipt(block.transactions[i]["hash"].n), block.transactions[i],
                    block.timestamp)]

\* pd.DataFrame(list of dicts): every row gets every column, NaN where the key is missing
Columns(rows) == UNION {DOMAIN rows[i] : i \in 1..Len(rows)}
Cell(row, col) == IF col \in DOMAIN row THEN row[col] ELSE NaN
DataFrame(rows) ==
    [i \in 1..Len(rows) |-> [c \in Columns(rows) |-> Cell(rows[i], c)]]

RECURSIVE all_transaction_details(_, _)
all_transaction_details(block_start, block_end) ==
    IF block_start > block_end THEN <<>>
    ELSE fetch_block_transaction_details(GetBlock(block_start))
         \o all_transaction_details(block_start + 1, block_end)

\* fetch_data_for_range when no RPC call fails; None is the empty table
fetch_data_for_range(block_start, block_end) ==
    DataFrame(all_transaction_details(block_start, block_end))

\* the RPC calls fetch_data_for_range makes for a range: get_block of every block and
\* get_transaction_receipt of every transaction
rpc_calls(block_start, block_end) ==
    {<<"get_block", b>> : b \in block_start..block_end}
    \cup {<<"get_transaction_receipt", b>> :
            b \in {c \in block_start..block_end : GetBlock(c).transactions # <<>>}}
\* all_transaction_details at the moment the call on block b raises
collected_before(block_start, b) == all_transaction_details(block_start, b - 1)
\* except Exception as e: raise e -- the list collected so far is dropped with the frame
swallow_and_return(collected) == [raised |-> FALSE, df |-> DataFrame(collected)]
on_rpc_exception(collected) == [raised |-> TRUE, df |-> <<>>]

\* the loop over df.columns at the head of save_data_for_range
IsObject(d, col) == \E i \in 1..Len(d) : d[i][col].kind \in {"str", "none"}
object_to_str(d) ==
    [i \in 1..Len(d) |-> [c \in DOMAIN d[i] |->
        IF IsObject(d, c) THEN PyStr(d[i][c]) ELSE d[i][c]]]

file_key(ch, block_start, block_end) == <<ch, block_start, block_end>>
----------------------------------------------------------------------------
(* Normalisation.  A number is IntV(n) or NaN; tx_fee is kept in wei       *)
(* (tx_fee * 1e18) so that it stays an integer.                            *)

\* of the two factors of a product at most one is no integer
Mul(a, b) ==
    IF a.kind = "nan" \/ b.kind = "nan" THEN NaN ELSE Num((Tenths(a) * Tenths(b)) \div 10)
Add(a, b) == IF a.kind = "nan" \/ b.kind = "nan" THEN NaN ELSE Num(Tenths(a) + Tenths(b))
fillna(v, d) == IF v.kind \in {"nan", "none"} THEN d ELSE v

\* pd.to_numeric(.., errors='coerce') on one cell
to_numeric(v) ==
    CASE v.kind \in {"int", "dec"} -> v
      [] IsDec(v) \/ IsDecimal(v) -> FloatOf(v)
      [] OTHER -> NaN

safe_float_conversion(x) ==
    CASE x.kind = "str" /\ x.pre -> IF IsHex(x) THEN IntV(Digits(x.cs, 16)) ELSE NaN
      [] x.kind \in {"int", "dec"} -> x
      [] IsDec(x) \/ IsDecimal(x) -> FloatOf(x)
      [] OTHER -> NaN

hex_to_int(hex_str) == IF IsHex(hex_str) THEN IntV(Digits(hex_str.cs, 16)) ELSE NoneV

BaseColumns == {"blockNumber", "hash", "gasPrice", "gasUsed", "status", "block_timestamp"}
L1Columns == {"l1GasUsed", "l1GasPrice", "l1FeeScalar"}

\* df[list(column_mapping.keys())] raises KeyError when a key is no column
KeyError(d, keys) == \E i \in 1..Len(d) : ~(keys \subseteq DOMAIN d[i])

status_of(x) == IF x = IntV(1) THEN 1 ELSE IF x = IntV(0) THEN 0 ELSE -1
\* .str.replace('0x', '\\x')
bytea(x) == <<"\\x", x.cs>>

Canonical(row, tx_fee) ==
    [tx_hash |-> bytea(row["hash"]),
     block_number |-> row["blockNumber"].n,
     gas_price |-> to_numeric(row["gasPrice"]),
     gas_used |-> to_numeric(row["gasUsed"]),
     status |-> status_of(row["status"]),
     block_timestamp |-> row["block_timestamp"].n,
     tx_fee |-> tx_fee]

GasFee(row) == Mul(to_numeric(row["gasPrice"]), to_numeric(row["gasUsed"]))

\* prep_dataframe_linea
linea_raises(d) == KeyError(d, BaseColumns)
prep_dataframe_linea(d) == [i \in 1..Len(d) |-> Canonical(d[i], GasFee(d[i]))]

\* prep_dataframe_scroll: the lambda applied to l1_fee
l1_fee_raises(x) ==
    \/ x.kind # "str"                                \* AttributeError: no startswith
    \/ x.pre /\ ~IsHex(x)                            \* ValueError of int(x, 16)
    \/ ~x.pre /\ ~IsDec(x) /\ ~IsDecimal(x) /\ ~IsNanText(x)    \* ValueError of float(x)
l1_fee(x) ==
    CASE x.pre -> IntV(Digits(x.cs, 16))
      [] IsDec(x) \/ IsDecimal(x) -> FloatOf(x)
      [] OTHER -> NaN
scroll_raises(d) ==
    \/ KeyError(d, BaseColumns \cup {"l1Fee"})
    \/ \E i \in 1..Len(d) : l1_fee_raises(d[i]["l1Fee"])
prep_dataframe_scroll(d) ==
    [i \in 1..Len(d) |-> Canonical(d[i], Add(GasFee(d[i]), l1_fee(d[i]["l1Fee"])))]

\* prep_dataframe: the three l1 columns are added as 0 when the table lacks them
with_required_columns(d) ==
    [i \in 1..Len(d) |-> [c \in DOMAIN d[i] \cup L1Columns |->
        IF c \in DOMAIN d[i] THEN d[i][c] ELSE IntV(0)]]
default_raises(d) == KeyError(with_required_columns(d), BaseColumns \cup L1Columns)
prep_dataframe(d) ==
    LET r == with_required_columns(d)
        l1(row) == Mul(Mul(fillna(hex_to_int(row["l1GasUsed"]), IntV(0)),
                           fillna(safe_float_conversion(row["l1GasPrice"]), IntV(0))),
                       to_numeric(fillna(row["l1FeeScalar"], Str(FALSE, <<0>>))))
    IN  [i \in 1..Len(r) |-> Canonical(r[i], Add(GasFee(r[i]), l1(r[i])))]

\* the chain dispatch of fetch_and_process_range
prep_raises(ch, d) ==
    CASE ch = "linea" -> linea_raises(d)
      [] ch = "scroll" -> scroll_raises(d)
      [] OTHER -> default_raises(d)
prep(ch, d) ==
    CASE ch = "linea" -> prep_dataframe_linea(d)
      [] ch = "scroll" -> prep_dataframe_scroll(d)
      [] OTHER -> prep_dataframe(d)

\* df_prep.drop_duplicates(subset=['tx_hash']): pandas keeps the first row of each key
RECURSIVE keep_first(_)
keep_first(t) ==
    IF t = <<>> THEN <<>>
    ELSE LET n == Len(t)
             init == keep_first(SubSeq(t, 1, n - 1))
         IN  IF \E j \in 1..(n - 1) : t[j].tx_hash = t[n].tx_hash
             THEN init ELSE Append(init, t[n])
RECURSIVE keep_last(_)
keep_last(t) ==
    IF t = <<>> THEN <<>>
    ELSE IF \E j \in 2..Len(t) : t[j].tx_hash = t[1].tx_hash
         THEN keep_last(Tail(t)) ELSE <<t[1]>> \o keep_last(Tail(t))
drop_duplicates(t) == keep_first(t)

\* db_connector.upsert_table(table_name, df_prep, if_exists='update').  The table is a
\* bag of rows (row -> number of copies): rows of new keys are inserted, a row whose
\* tx_hash is already in the table replaces the rows of that key
EmptyTable == [x \in {} |-> 0]
Copies(table, row) == IF row \in DOMAIN table THEN table[row] ELSE 0
Keys(table) == {x.tx_hash : x \in DOMAIN table}
delete_key(table, k) == [x \in {y \in DOMAIN table : y.tx_hash # k} |-> table[x]]
insert_row(table, row) ==
    [x \in DOMAIN table \cup {row} |-> IF x = row THEN Copies(table, row) + 1 ELSE table[x]]
RECURSIVE on_conflict_update(_, _)
on_conflict_update(table, t) ==
    IF t = <<>> THEN table
    ELSE on_conflict_update(insert_row(delete_key(table, t[1].tx_hash), t[1]), Tail(t))
RECURSIVE append_rows(_, _)
append_rows(table, t) ==
    IF t = <<>> THEN table ELSE append_rows(insert_row(table, t[1]), Tail(t))
upsert_table(table, t) == on_conflict_update(table, t)

RECURSIVE RowCountOf(_, _)
RowCountOf(table, rows) ==
    IF rows = {} THEN 0
    ELSE LET x == CHOOSE y \in rows : TRUE IN table[x] + RowCountOf(table, rows \ {x})
RowCount(table) == RowCountOf(table, DOMAIN table)
----------------------------------------------------------------------------
(* Retry policy *)

\* random.uniform(0, wait_time * 0.1): point k of a grid of JitterSteps + 1 points
uniform(wait_time, k) == (wait_time * k) \div (10 * JitterSteps)

\* handle_retry_exception(current_start, current_end, base_wait_time): raises
\* MaxWaitTimeExceededException, or sleeps wait_time and returns it
retry_strict_ceiling(base, k) ==
    LET wait_time == Min(max_wait_time, 2 * base)
    IN  IF wait_time > max_wait_time
        THEN [raised |-> TRUE, wait_time |-> wait_time]
        ELSE [raised |-> FALSE, wait_time |-> wait_time + uniform(wait_time, k)]
retry_forever(base, k) ==
    LET wait_time == Min(max_wait_time, 2 * base)
    IN  [raised |-> FALSE, wait_time |-> wait_time + uniform(wait_time, k)]
retry_tripled(base, k) ==
    LET wait_time == Min(max_wait_time, 3 * base)
    IN  IF wait_time >= max_wait_time
        THEN [raised |-> TRUE, wait_time |-> wait_time]
        ELSE [raised |-> FALSE, wait_time |-> wait_time + uniform(wait_time, k)]
retry_wide_jitter(base, k) ==
    LET wait_time == Min(max_wait_time, 2 * base)
    IN  IF wait_time >= max_wait_time
        THEN [raised |-> TRUE, wait_time |-> wait_time]
        ELSE [raised |-> FALSE, wait_time |-> wait_time + 2 * uniform(wait_time, k)]
handle_retry_exception(base, k) ==
    LET wait_time == Min(max_wait_time, 2 * base)
    IN  IF wait_time >= max_wait_time
        THEN [raised |-> TRUE, wait_time |-> wait_time]
        ELSE [raised |-> FALSE, wait_time |-> wait_time + uniform(wait_time, k)]

\* s3_file_exists(s3, file_key, bucket_name) for the status head_object answers with
s3_file_exists(status) ==
    CASE status = 200 -> "True"
      [] status = 404 -> "False"
      [] OTHER -> "raise"

\* save_data_for_range after df.to_parquet returned: raises unless the object is found
save_trusts_write(status) == s3_file_exists(status) = "raise"
save_raises(status) == s3_file_exists(status) # "True"

\* the order of the stages in the try block of fetch_and_process_range
archive_last(stage) ==
    CASE stage = "fetch" -> "prep"
      [] stage = "prep" -> "upsert"
      [] stage = "upsert" -> "save"
      [] OTHER -> "returned"
loop_without_break(stage) ==
    CASE stage = "fetch" -> "save"
      [] stage = "save" -> "prep"
      [] stage = "prep" -> "upsert"
      [] OTHER -> "fetch"
stage_after(stage) ==
    CASE stage = "fetch" -> "save"
      [] stage = "save" -> "prep"
      [] stage = "prep" -> "upsert"
      [] OTHER -> "returned"

----------------------------------------------------------------------------
(* extract_raw: resume point and partition *)

RECURSIVE MaxBlockOf(_)
MaxBlockOf(rows) ==
    IF rows = {} THEN 0
    ELSE LET x == CHOOSE y \in rows : TRUE IN Max(x.block_number, MaxBlockOf(rows \ {x}))
get_max_block(table) == MaxBlockOf(DOMAIN table)

\* block_start = 'auto': one past the last loaded block
resume_point(table) == get_max_block(table) + 1

\* the last block of the range that starts at block_start
range_end_inclusive(block_start, latest, size) == Min(block_start + size, latest)
range_end(block_start, latest, size) == Min(block_start + size - 1, latest)

RECURSIVE partition(_, _, _)
partition(block_start, latest, size) ==
    IF block_start > latest THEN <<>>
    ELSE <<<<block_start, range_end(block_start, latest, size)>>>>
         \o partition(block_start + size, latest, size)

\* the test of the except clause of run_nader_super
reduce_to_zero(t) == t > 0
can_reduce(t) == t > 1
\* load_params['threads'] -= 1
halve_threads(t) == t \div 2
keep_threads(t) == t
reduce_threads(t) == t - 1

\* except MaxWaitTimeExceededException as e: the exceptions the clause catches
except_any(e) == TRUE
except_matches(e) == e = "MaxWaitTimeExceededException"

Chains == {"gitcoin_pgn", "scroll", "linea"}
\* the chains whose driver is run: dag_pgn, and the same driver for scroll
DriverChains == {"gitcoin_pgn", "scroll"}
Idx == 1..Len(ranges)
Working == {i \in Idx : pc[i] \in {"fetch", "save", "prep", "upsert"}}
NoProbe == [op |-> "none"]
----------------------------------------------------------------------------
(* The driver run_nader_super and the pool of extract_raw *)

Init ==
    /\ threads \in 1..MaxThreads
    /\ threads0 = threads
    /\ dpc = "loop"
    /\ error = ""
    /\ exhaustions = 0
    /\ calls = 0
    /\ slept = 0
    /\ chain \in DriverChains
    /\ ranges = <<>>
    /\ pc = <<>>
    /\ base_wait_time = <<>>
    /\ fails = <<>>
    /\ df = <<>>
    /\ df_prep = <<>>
    /\ s3 = {}
    /\ store = EmptyTable
    /\ envfault = FALSE
    /\ probe = NoProbe

DriverVars == <<threads, threads0, dpc, error, exhaustions, calls, slept, chain>>

\* the body of the except clause of run_nader_super for the caught exception e
except_MaxWaitTimeExceededException(e) ==
    /\ exhaustions' = exhaustions + 1
    /\ IF can_reduce(threads)
       THEN threads' = reduce_threads(threads) /\ dpc' = "sleep" /\ UNCHANGED error
       ELSE dpc' = "failed" /\ error' = e /\ UNCHANGED threads
DataVars == <<s3, store>>

\* while load_params['threads'] > 0: adapter.extract_raw(load_params) -- the ranges of
\* [resume, latest] are handed to the pool
extract_raw_call ==
    /\ dpc = "loop" /\ threads > 0
    /\ dpc' = "extract_raw"
    /\ calls' = calls + 1
    /\ ranges' = partition(resume_point(store), LatestBlock, batch_size)
    /\ pc' = [i \in 1..Len(ranges') |-> "queued"]
    /\ base_wait_time' = [i \in 1..Len(ranges') |-> 0]
    /\ fails' = [i \in 1..Len(ranges') |-> 0]
    /\ df' = [i \in 1..Len(ranges') |-> <<>>]
    /\ df_prep' = [i \in 1..Len(ranges') |-> <<>>]
    /\ UNCHANGED <<threads, threads0, error, exhaustions, slept, chain, s3, store, envfault,
                   probe>>

\* extract_raw raises something else than MaxWaitTimeExceededException (no connection):
\* no except clause of the driver matches
extract_raw_error ==
    /\ dpc = "loop" /\ threads > 0
    /\ calls' = calls + 1
    /\ envfault' = TRUE
    /\ IF except_matches("ConnectionError")
       THEN except_MaxWaitTimeExceededException("ConnectionError")
       ELSE /\ dpc' = "failed"
            /\ error' = "ConnectionError"
            /\ UNCHANGED <<threads, exhaustions>>
    /\ UNCHANGED <<threads0, slept, chain, ranges, pc, base_wait_time,
                   fails, df, df_prep, s3, store, probe>>

\* base_wait_time = 5 at the head of fetch_and_process_range: a local of the call, set
\* whatever the waits of the other calls are
inherited_wait(waits) ==
    IF \E j \in DOMAIN waits : waits[j] > base_wait
    THEN CHOOSE w \in {waits[j] : j \in DOMAIN waits} :
            \A j \in DOMAIN waits : waits[j] <= w
    ELSE base_wait
initial_wait(waits) == base_wait

\* a free worker of the pool takes the lowest range not yet started:
\* fetch_and_process_range begins with base_wait_time = 5
start_range(i) ==
    /\ dpc = "extract_raw" /\ pc[i] = "queued"
    /\ \A j \in 1..(i - 1) : pc[j] # "queued"
    /\ Cardinality(Working) < threads
    /\ pc' = [pc EXCEPT ![i] = "fetch"]
    /\ base_wait_time' = [base_wait_time EXCEPT ![i] = initial_wait(base_wait_time)]
    /\ UNCHANGED <<DriverVars, DataVars, ranges, fails, df, df_prep, envfault, probe>>

\* while True: try: df = fetch_data_for_range(..) -- where the attempt after a failure
\* in stage begins
resume_stage(stage) == stage
restart_stage(stage) == "fetch"

\* the except clause of fetch_and_process_range.  The locals df and df_prep of the
\* abandoned attempt are dead (the next attempt assigns each before it reads it) and
\* are dropped
except_clause(i) ==
    \E k \in {j \in 0..JitterSteps : j = 0 \/ ~handle_retry_exception(base_wait_time[i], j).raised} :
        LET r == handle_retry_exception(base_wait_time[i], k)
        IN  /\ fails' = [fails EXCEPT ![i] = @ + 1]
            /\ df' = [df EXCEPT ![i] = <<>>]
            /\ df_prep' = [df_prep EXCEPT ![i] = <<>>]
            /\ IF r.raised
               THEN /\ pc' = [pc EXCEPT ![i] = "raised"]
                    /\ UNCHANGED base_wait_time
               ELSE /\ pc' = [pc EXCEPT ![i] = restart_stage(pc[i])]
                    /\ base_wait_time' = [base_wait_time EXCEPT ![i] = r.wait_time]

proceed(i) ==
    /\ pc' = [pc EXCEPT ![i] = stage_after(pc[i])]
    /\ UNCHANGED <<base_wait_time, fails>>

\* if df is None or df.empty (None and the table without rows are both <<>>)
never_empty(d) == FALSE
no_data(d) == d = <<>>

\* df = fetch_data_for_range(..) has returned d; return when there is no data
fetch_returns(i, d) ==
    /\ df' = [df EXCEPT ![i] = d]
    /\ IF no_data(d)
       THEN pc' = [pc EXCEPT ![i] = "returned"] /\ UNCHANGED <<base_wait_time, fails>>
       ELSE proceed(i)
    /\ UNCHANGED df_prep

\* df = fetch_data_for_range(..): it returns, or one of its RPC calls raises
do_fetch(i) ==
    /\ dpc = "extract_raw" /\ pc[i] = "fetch"
    /\ \/ LET d == fetch_data_for_range(ranges[i][1], ranges[i][2])
          IN  fetch_returns(i, d) /\ UNCHANGED envfault
       \/ \E call \in rpc_calls(ranges[i][1], ranges[i][2]) :
            LET r == on_rpc_exception(collected_before(ranges[i][1], call[2]))
            IN  /\ envfault' = TRUE
                /\ IF r.raised THEN except_clause(i) ELSE fetch_returns(i, r.df)
    /\ UNCHANGED <<DriverVars, DataVars, ranges, probe>>

\* save_data_for_range(df, ..): columns to str, to_parquet, s3_file_exists.
\* written: the object is in the bucket once to_parquet is over; status: what
\* head_object answers (200 only for an object that is there, 404 only for one that is not)
do_save(i) ==
    /\ dpc = "extract_raw" /\ pc[i] = "save"
    /\ LET key == file_key(chain, ranges[i][1], ranges[i][2])
       IN  \/ /\ UNCHANGED <<s3, store>>                \* to_parquet raises
              /\ except_clause(i) /\ envfault' = TRUE
           \/ \E written \in BOOLEAN, status \in {200, 404, 500} :
                /\ s3' = IF written THEN s3 \cup {key} ELSE s3
                /\ status = 200 => key \in s3'
                /\ status = 404 => key \notin s3'
                /\ UNCHANGED store
                /\ IF save_raises(status)
                   THEN except_clause(i) /\ envfault' = TRUE
                   ELSE /\ proceed(i)
                        /\ df' = [df EXCEPT ![i] = object_to_str(df[i])]
                        /\ envfault' = (envfault \/ ~written)
                        /\ UNCHANGED df_prep
    /\ UNCHANGED <<DriverVars, ranges, probe>>

\* df_prep = prep_dataframe*(df); drop_duplicates; set_index
do_prep(i) ==
    /\ dpc = "extract_raw" /\ pc[i] = "prep"
    /\ IF prep_raises(chain, df[i])
       THEN except_clause(i)
       ELSE /\ df_prep' = [df_prep EXCEPT ![i] = drop_duplicates(prep(chain, df[i]))]
            /\ proceed(i)
            /\ UNCHANGED df
    /\ UNCHANGED <<DriverVars, DataVars, ranges, envfault, probe>>

\* db_connector.upsert_table(table_name, df_prep, if_exists='update'); break
do_upsert(i) ==
    /\ dpc = "extract_raw" /\ pc[i] = "upsert"
    /\ \E db_ok \in BOOLEAN :
        IF db_ok
        THEN /\ store' = upsert_table(store, df_prep[i])
             /\ proceed(i)
             /\ UNCHANGED <<envfault, df, df_prep>>
        ELSE except_clause(i) /\ envfault' = TRUE /\ UNCHANGED store
    /\ UNCHANGED <<DriverVars, s3, ranges, probe>>

RangeVars == <<ranges, pc, base_wait_time, fails, df, df_prep>>

\* every range returned: extract_raw returns, break
extract_raw_return ==
    /\ dpc = "extract_raw"
    /\ \A i \in Idx : pc[i] = "returned"
    /\ dpc' = "success"
    /\ UNCHANGED <<threads, threads0, error, exhaustions, calls, slept, chain, RangeVars,
                   DataVars, envfault, probe>>

\* the pool has come to rest and a range raised: except MaxWaitTimeExceededException
extract_raw_raise ==
    /\ dpc = "extract_raw"
    /\ \A i \in Idx : pc[i] \in {"returned", "raised"}
    /\ \E i \in Idx : pc[i] = "raised"
    /\ except_MaxWaitTimeExceededException("MaxWaitTimeExceededException")
    /\ UNCHANGED <<threads0, calls, slept, chain, RangeVars, DataVars, envfault, probe>>

\* time.sleep(300), then the loop test
sleep_cooldown ==
    /\ dpc = "sleep"
    /\ dpc' = "loop"
    /\ slept' = slept + cooldown
    /\ UNCHANGED <<threads, threads0, error, exhaustions, calls, chain, RangeVars,
                   DataVars, envfault, probe>>

Next ==
    \/ extract_raw_call
    \/ extract_raw_error
    \/ \E i \in Idx : start_range(i)
    \/ \E i \in Idx : do_fetch(i)
    \/ \E i \in Idx : do_save(i)
    \/ \E i \in Idx : do_prep(i)
    \/ \E i \in Idx : do_upsert(i)
    \/ extract_raw_return
    \/ extract_raw_raise
    \/ sleep_cooldown

Spec == Init /\ [][Next]_vars

----------------------------------------------------------------------------
(* Function-level specification: the pure steps of the pipeline applied to *)
(* arbitrary small inputs; probe records the last application.             *)

MergeKeys == {"hash", "block_timestamp", "blockNumber"}
FieldValues == {IntV(1), IntV(2)}
Dicts == UNION {[K -> FieldValues] : K \in SUBSET MergeKeys}

\* raw records as fetch_block_transaction_details yields them, hashes may repeat
RawRecords ==
    {[hash |-> HexOf(IntV(h)), blockNumber |-> IntV(h), gasPrice |-> g,
      gasUsed |-> IntV(3), status |-> IntV(1), block_timestamp |-> IntV(h),
      l1Fee |-> Str(FALSE, <<7>>)] : h \in 1..2, g \in {IntV(2), IntV(5)}}
RawTables == UNION {[1..n -> RawRecords] : n \in 1..MaxBatch}
PriorTables ==
    {upsert_table(EmptyTable, drop_duplicates(prep("linea", t))) :
        t \in UNION {[1..n -> RawRecords] : n \in 0..2}}

InitFn ==
    /\ threads = MaxThreads
    /\ threads0 = threads
    /\ dpc = "loop"
    /\ error = ""
    /\ exhaustions = 0
    /\ calls = 0
    /\ slept = 0
    /\ chain \in Chains
    /\ ranges = <<>>
    /\ pc = <<>>
    /\ base_wait_time = <<>>
    /\ fails = <<>>
    /\ df = <<>>
    /\ df_prep = <<>>
    /\ s3 = {}
    /\ store = EmptyTable
    /\ envfault = FALSE
    /\ probe = NoProbe

\* the loop body of fetch_block_transaction_details on one transaction and its receipt
apply_merged_dict ==
    /\ probe = NoProbe
    /\ \E receipt \in Dicts, tx \in {t \in Dicts : "hash" \in DOMAIN t}, ts \in FieldValues :
        /\ probe' = [op |-> "merged_dict", receipt |-> receipt, tx |-> tx, ts |-> ts,
                     out |-> merged_dict(receipt, tx, ts)]
        /\ UNCHANGED <<DriverVars, RangeVars, DataVars, envfault>>

\* the try block of fetch_and_process_range past the archive, on a fetched table and a
\* table of the store, run once and then once more on the result
apply_process ==
    /\ probe = NoProbe
    /\ \E raw \in RawTables, table \in PriorTables :
        LET d == object_to_str(DataFrame(raw))
            normalized == prep(chain, d)
            handed == drop_duplicates(normalized)
            once == upsert_table(table, handed)
        IN  /\ ~prep_raises(chain, d)
            /\ probe' = [op |-> "process", table |-> table, normalized |-> normalized,
                         handed |-> handed, once |-> once,
                         twice |-> upsert_table(once, handed)]
            /\ UNCHANGED <<DriverVars, RangeVars, DataVars, envfault>>

\* the partition of [resume, latest] that extract_raw hands to the pool
apply_partition ==
    /\ probe = NoProbe
    /\ \E latest \in 1..LatestBlock, size \in 1..(batch_size + 1) :
        \E resume \in 1..latest :
            /\ probe' = [op |-> "partition", resume |-> resume, latest |-> latest,
                         size |-> size, out |-> partition(resume, latest, size)]
            /\ UNCHANGED <<DriverVars, RangeVars, DataVars, envfault>>

\* receipts of the default chain: the l1 fields a receipt may carry.  Prices are in
\* gwei (the fee is linear in them): gasPrice 2, gasUsed 21000, l1GasUsed "0x640",
\* l1GasPrice 1, l1FeeScalar "1.5" is the record of 44400 gwei
L1Fields ==
    {[l1GasUsed |-> Str(TRUE, <<6, 4, 0>>), l1GasPrice |-> IntV(1),
      l1FeeScalar |-> Str(FALSE, <<1, Point, 5>>)],
     [l1GasUsed |-> Str(TRUE, <<2>>), l1GasPrice |-> Str(TRUE, <<3>>),
      l1FeeScalar |-> Str(FALSE, <<1>>)],
     [l1GasUsed |-> Str(TRUE, <<2>>), l1GasPrice |-> Str(TRUE, <<3>>)],
     [l1GasUsed |-> Str(TRUE, <<2>>), l1GasPrice |-> Str(TRUE, <<3>>), l1FeeScalar |-> NoneV],
     [k \in {} |-> NoneV]}
FeeRecord(h, l1) ==
    LET base == [hash |-> HexOf(IntV(h)), blockNumber |-> IntV(h), gasPrice |-> IntV(2),
                 gasUsed |-> IntV(21000), status |-> IntV(1), block_timestamp |-> IntV(h)]
    IN  [k \in DOMAIN base \cup DOMAIN l1 |-> IF k \in DOMAIN l1 THEN l1[k] ELSE base[k]]
FeeTables ==
    UNION {{[j \in 1..n |-> FeeRecord(j, f[j])] : f \in [1..n -> L1Fields]} : n \in 1..2}

\* save_data_for_range and prep_dataframe on the records of one range, as
\* fetch_and_process_range runs them for a chain that is neither linea nor scroll
apply_prep_dataframe ==
    /\ probe = NoProbe
    /\ chain = "gitcoin_pgn"
    /\ \E raw \in FeeTables :
        LET d == object_to_str(DataFrame(raw))
        IN  /\ ~prep_raises(chain, d)
            /\ probe' = [op |-> "prep_dataframe", raw |-> raw, out |-> prep(chain, d)]
            /\ UNCHANGED <<DriverVars, RangeVars, DataVars, envfault>>

NextFn == apply_merged_dict \/ apply_process \/ apply_partition \/ apply_prep_dataframe

SpecFn == InitFn /\ [][NextFn]_vars
----------------------------------------------------------------------------
(* Claims *)

KeyOf(i) == file_key(chain, ranges[i][1], ranges[i][2])
Exhausted == error = "MaxWaitTimeExceededException"
\* a step taken by a worker of the pool
InRound == dpc = "extract_raw" /\ dpc' = "extract_raw"

\* C1 (as stated): started with threads = 3, the first three terminal exhaustions do
\* not fail the run, the fourth one does, and the pool never goes below 1.
C1_FourthExhaustionFails ==
    threads0 = 3 =>
        /\ threads >= 1
        /\ (exhaustions <= 3 => ~Exhausted)
        /\ (Exhausted => exhaustions = 4)

\* C1 (amended): started with threads = 3, the first exhaustion leaves the pool at 2 and
\* the second at 1 without failing the run, the third exhaustion fails the run; the pool
\* never goes below 1.
C1_ThirdExhaustionFails ==
    threads0 = 3 =>
        /\ threads >= 1
        /\ exhaustions <= 3
        /\ (exhaustions = 0 => threads = 3 /\ ~Exhausted)
        /\ (exhaustions = 1 => threads = 2 /\ ~Exhausted)
        /\ (exhaustions = 2 => threads = 1 /\ ~Exhausted)
        /\ (exhaustions = 3 => threads = 1 /\ Exhausted /\ dpc = "failed")

C1_Witness == threads0 = 3 /\ exhaustions = 3 /\ Exhausted /\ threads = 1

\* C2 (as stated): a range is given up (MaxWaitTimeExceededException) at its 7th
\* consecutive failed attempt, and is retried after each earlier failure.
C2_SevenFailures ==
    \A i \in Idx : pc[i] = "raised" => fails[i] = 7

\* C2 (amended): whatever the jitter, a range is given up at its 6th consecutive failed
\* attempt, when the doubled wait has reached 300 s; after each of the first five
\* failures it is retried.
C2_SixFailures ==
    \A i \in Idx :
        /\ fails[i] <= 6
        /\ (pc[i] = "raised" <=> fails[i] = 6)
        /\ (pc[i] = "raised" => 2 * base_wait_time[i] >= max_wait_time)

C2_Witness == \E i \in Idx : pc[i] = "raised" /\ fails[i] = 6 /\ base_wait_time[i] > 160

\* C3: when handle_retry_exception returns a wait w for an incoming wait b, then
\* 2b <= w <= 1.1 * 2b and w >= 0, and w is the wait the next call of it receives.
C3_JitterBounds ==
    [][\A i \in Idx :
          (InRound /\ fails'[i] = fails[i] + 1 /\ pc'[i] # "raised") =>
              /\ pc'[i] = "fetch"
              /\ base_wait_time'[i] >= 0
              /\ 2 * base_wait_time[i] <= base_wait_time'[i]
              /\ 10 * base_wait_time'[i] <= 11 * (2 * base_wait_time[i])]_vars

\* two failures with full jitter: 5 -> 10 + 1 -> 22 + 2
C3_Witness == \E i \in Idx : fails[i] = 2 /\ base_wait_time[i] = 24 /\ pc[i] = "fetch"

\* C4: the stages of an attempt run in the order fetch, archive, normalize, upsert, and
\* whenever the upsert of a range is called the archive object of the range exists.
StageOrder ==
    {<<"queued", "fetch">>, <<"fetch", "save">>, <<"save", "prep">>, <<"prep", "upsert">>,
     <<"upsert", "returned">>, <<"fetch", "returned">>}
    \cup {<<st, to>> : st \in {"fetch", "save", "prep", "upsert"}, to \in {"fetch", "raised"}}
C4_ArchiveBeforeMutate ==
    /\ [](\A i \in Idx : pc[i] \in {"prep", "upsert"} => KeyOf(i) \in s3)
    /\ [][\A i \in Idx :
            /\ (InRound /\ pc'[i] # pc[i]) => <<pc[i], pc'[i]>> \in StageOrder
            /\ (InRound /\ store' # store) => pc[i] # "upsert" \/ KeyOf(i) \in s3]_vars

C4_Witness ==
    \E i \in Idx : pc[i] = "upsert" /\ KeyOf(i) \in s3 /\ fails[i] >= 1 /\ df_prep[i] # <<>>

\* C5 (as stated): of the rows of the normalized table that share a tx_hash, the one
\* handed to the store upsert is the last in iteration order.
Stamped == {"hash", "block_timestamp"}
HashesOf(t) == {t[j].tx_hash : j \in 1..Len(t)}
FirstOf(t, k) == t[CHOOSE j \in 1..Len(t) :
                     t[j].tx_hash = k /\ \A m \in 1..(j - 1) : t[m].tx_hash # k]
LastOf(t, k) == t[CHOOSE j \in 1..Len(t) :
                    t[j].tx_hash = k /\ \A m \in (j + 1)..Len(t) : t[m].tx_hash # k]
HandedFor(k) == {probe.handed[j] : j \in {m \in 1..Len(probe.handed) : probe.handed[m].tx_hash = k}}
C5_LastOccurrenceWins ==
    probe.op = "process" =>
        \A k \in HashesOf(probe.normalized) : HandedFor(k) = {LastOf(probe.normalized, k)}

\* C5 (amended): of the rows of the normalized table that share a tx_hash, the one handed
\* to the store upsert is the first in iteration order; each tx_hash is handed over once,
\* and that row is the one the store holds afterwards.
C5_FirstOccurrenceWins ==
    probe.op = "process" =>
        /\ HashesOf(probe.handed) = HashesOf(probe.normalized)
        /\ Cardinality(HashesOf(probe.handed)) = Len(probe.handed)
        /\ \A k \in HashesOf(probe.normalized) :
              /\ HandedFor(k) = {FirstOf(probe.normalized, k)}
              /\ {x \in DOMAIN probe.once : x.tx_hash = k} = {FirstOf(probe.normalized, k)}

C5_Witness ==
    /\ probe.op = "process"
    /\ \E k \in HashesOf(probe.normalized) :
          FirstOf(probe.normalized, k) # LastOf(probe.normalized, k)

\* C6: upserting the canonical batch of a range a second time leaves the store as the
\* first upsert left it: same rows, same number of rows, same keys.
C6_IdempotentUpsert ==
    probe.op = "process" =>
        /\ probe.twice = probe.once
        /\ RowCount(probe.twice) = RowCount(probe.once)
        /\ Keys(probe.twice) = Keys(probe.once)
        /\ \A x \in DOMAIN probe.twice : probe.twice[x] = 1

\* the batch overwrote a row the store already held
C6_Witness ==
    /\ probe.op = "process"
    /\ \E x \in DOMAIN probe.table :
          x.tx_hash \in HashesOf(probe.handed) /\ x \notin DOMAIN probe.once

\* C7 (as stated): malformed data causes no retry, no exhaustion and no thread
\* degradation: as long as no RPC, S3 or store call has failed, no attempt has failed.
C7_MalformedDataTolerated ==
    ~envfault =>
        /\ \A i \in Idx : fails[i] = 0 /\ pc[i] # "raised"
        /\ threads = threads0
        /\ ~Exhausted

\* C8 (as stated): after a round in which a range was given up while a higher range was
\* upserted, the next extract_raw call dispatches the failed range again; and a run that
\* ends in success has upserted every block of [1, latest] that holds transactions.
Loaded(b) == \E x \in DOMAIN store : x.block_number = b
C8_NoDataLoss ==
    /\ [][(dpc = "loop" /\ dpc' = "extract_raw") =>
            \A i \in Idx :
                (pc[i] = "raised" /\ \E j \in Idx : j > i /\ pc[j] = "returned" /\ df[j] # <<>>)
                => \E k \in 1..Len(ranges') : ranges'[k][1] <= ranges[i][1]]_vars
    /\ [](dpc = "success" =>
            \A b \in 1..LatestBlock : GetBlock(b).transactions # <<>> => Loaded(b))

\* C9 (as stated): on a key that receipt and transaction share (hash and block_timestamp
\* apart) the merged record holds the receipt's value.
Shared == (DOMAIN probe.receipt \cap DOMAIN probe.tx) \ Stamped
C9_ReceiptWins ==
    probe.op = "merged_dict" => \A k \in Shared : probe.out[k] = probe.receipt[k]

\* C9 (amended): on a key that receipt and transaction share (hash and block_timestamp
\* apart) the merged record holds the transaction's value; the receipt's value is kept
\* for the keys the transaction lacks; hash and block_timestamp are the stamped ones.
C9_TransactionWins ==
    probe.op = "merged_dict" =>
        /\ DOMAIN probe.out = DOMAIN probe.receipt \cup DOMAIN probe.tx \cup Stamped
        /\ \A k \in Shared : probe.out[k] = probe.tx[k]
        /\ \A k \in (DOMAIN probe.receipt \ DOMAIN probe.tx) \ Stamped :
              probe.out[k] = probe.receipt[k]
        /\ probe.out["hash"] = HexOf(probe.tx["hash"])
        /\ probe.out["block_timestamp"] = probe.ts

C9_Witness ==
    /\ probe.op = "merged_dict"
    /\ \E k \in Shared : probe.receipt[k] # probe.tx[k]

\* C10: save_data_for_range returns normally only with the object of the range in the
\* bucket; when the object is not there the call raises: the attempt ends in the except
\* clause, and neither normalize nor upsert runs in it.
C10_ArchiveVerified ==
    [][\A i \in Idx :
          (InRound /\ pc[i] = "save" /\ pc'[i] # "save") =>
              /\ pc'[i] \in {"prep", "fetch", "raised"}
              /\ pc'[i] = "prep" => KeyOf(i) \in s3' /\ fails'[i] = fails[i]
              /\ KeyOf(i) \notin s3' =>
                    /\ fails'[i] = fails[i] + 1
                    /\ pc'[i] \in {"fetch", "raised"}
                    /\ df_prep'[i] = <<>>
                    /\ store' = store]_vars

C10_Witness ==
    \E i \in Idx : pc[i] = "prep" /\ KeyOf(i) \in s3 /\ fails[i] >= 1

\* C11 (as stated): an attempt whose archive step (to_parquet, then the existence check)
\* fails leaves no object at the key of its range: when the step ends in the except
\* clause and the key held no object before the step, it holds none after it.
C11_NoArchiveOnFailure ==
    [][\A i \in Idx :
          (InRound /\ pc[i] = "save" /\ pc'[i] \in {"fetch", "raised"}
                   /\ KeyOf(i) \notin s3)
              => KeyOf(i) \notin s3']_vars

BlocksOf(rng) == rng[1]..rng[2]
\* C12: for resume <= latest and a positive batch size the dispatched ranges are in
\* ascending order and pairwise disjoint, each has start <= end and at most batch_size
\* blocks, every range but the last has exactly batch_size blocks, and together they
\* cover exactly resume..latest.
C12_PartitionCoverage ==
    probe.op = "partition" =>
        LET out == probe.out
        IN  /\ \A k \in 1..Len(out) :
                  /\ out[k][1] <= out[k][2]
                  /\ Cardinality(BlocksOf(out[k])) <= probe.size
                  /\ k < Len(out) => Cardinality(BlocksOf(out[k])) = probe.size
            /\ \A j, k \in 1..Len(out) :
                  j < k => out[j][2] < out[k][1] /\ BlocksOf(out[j]) \cap BlocksOf(out[k]) = {}
            /\ UNION {BlocksOf(out[k]) : k \in 1..Len(out)} = probe.resume..probe.latest

\* several ranges, the last one shorter than the others
C12_Witness ==
    /\ probe.op = "partition"
    /\ Len(probe.out) >= 2
    /\ probe.resume > 1
    /\ Cardinality(BlocksOf(probe.out[Len(probe.out)])) < probe.size

Lacks(row, k) == k \notin DOMAIN row \/ row[k].kind \in {"none", "nan"}
NumberOf(v) ==
    CASE v.kind \in {"int", "dec"} -> v
      [] v.pre -> IntV(Digits(v.cs, 16))
      [] OTHER -> FloatOf(v)
FieldOrZero(row, k) == IF Lacks(row, k) THEN IntV(0) ELSE NumberOf(row[k])
L1GasUsedOf(row) ==
    IF Lacks(row, "l1GasUsed") THEN IntV(0) ELSE IntV(Digits(row["l1GasUsed"].cs, 16))
DefaultFee(row) ==
    Add(Mul(row["gasPrice"], row["gasUsed"]),
        Mul(Mul(L1GasUsedOf(row), FieldOrZero(row, "l1GasPrice")),
            FieldOrZero(row, "l1FeeScalar")))
\* C13 (as stated): on the default chain every row of prep_dataframe has
\* tx_fee * 1e18 = gas_price*gas_used + l1_gas_used*l1_gas_price*l1_fee_scalar, with
\* l1_gas_used the integer of its hex string and each of the three l1 fields counted as
\* zero when the record lacks it (or holds None).
C13_DefaultFeeFormula ==
    probe.op = "prep_dataframe" =>
        /\ Len(probe.out) = Len(probe.raw)
        /\ \A j \in 1..Len(probe.raw) : probe.out[j].tx_fee = DefaultFee(probe.raw[j])

\* the formula on the tables whose records all carry an l1FeeScalar string, or all lack
\* the three l1 fields
UniformL1(raw) ==
    \/ \A j \in 1..Len(raw) : ~Lacks(raw[j], "l1FeeScalar")
    \/ \A j \in 1..Len(raw) : DOMAIN raw[j] \cap L1Columns = {}
C13_FeeOfUniformTables ==
    (probe.op = "prep_dataframe" /\ UniformL1(probe.raw)) =>
        \A j \in 1..Len(probe.raw) : probe.out[j].tx_fee = DefaultFee(probe.raw[j])
C13_Example ==
    /\ probe.op = "prep_dataframe"
    /\ \E j \in 1..Len(probe.raw) :
          /\ ~Lacks(probe.raw[j], "l1FeeScalar")
          /\ probe.raw[j]["l1FeeScalar"].cs = <<1, Point, 5>>
          /\ probe.out[j].tx_fee = IntV(44400)

StagesLeft(stage) ==
    CASE stage = "fetch" -> 4
      [] stage = "save" -> 3
      [] stage = "prep" -> 2
      [] stage = "upsert" -> 1
      [] OTHER -> 0
StepsLeft(stage, failed) ==
    IF stage \in {"returned", "raised"} THEN 0 ELSE 4 * (6 - failed) + StagesLeft(stage)
Local(i) == <<pc[i], fails[i], base_wait_time[i], df[i], df_prep[i]>>
\* C14: every call of fetch_and_process_range comes to an end after a bounded number of
\* steps (each step of the call lowers StepsLeft, which is never negative and is 0 only
\* when the call has returned or raised MaxWaitTimeExceededException); it makes at most 6
\* attempts; at a failure with the doubled wait at 300 s or more the call raises without
\* setting a new wait and without another attempt; the raised call stays raised for the
\* rest of the round, and the round then ends in the except clause of the driver, not
\* in success.
C14_NoIndefiniteRetry ==
    /\ [](\A i \in Idx :
            /\ fails[i] <= 6
            /\ StepsLeft(pc[i], fails[i]) >= 0
            /\ StepsLeft(pc[i], fails[i]) = 0 <=> pc[i] \in {"returned", "raised"})
    /\ [][\A i \in Idx :
            /\ (InRound /\ pc[i] # "queued" /\ Local(i)' # Local(i))
                  => StepsLeft(pc'[i], fails'[i]) < StepsLeft(pc[i], fails[i])
            /\ (InRound /\ fails'[i] = fails[i] + 1 /\ 2 * base_wait_time[i] >= max_wait_time)
                  => pc'[i] = "raised" /\ base_wait_time'[i] = base_wait_time[i]
            /\ (InRound /\ pc[i] = "raised")
                  => pc'[i] = "raised" /\ fails'[i] = fails[i]
            /\ (dpc = "extract_raw" /\ dpc' # "extract_raw" /\ pc[i] = "raised")
                  => exhaustions' = exhaustions + 1 /\ dpc' \in {"sleep", "failed"}]_vars

\* a call gave up and the driver caught its exception
C14_Witness ==
    \E i \in Idx : pc[i] = "raised" /\ fails[i] = 6 /\ dpc = "sleep" /\ exhaustions = 1

\* C15: a call of fetch_and_process_range starts at the fetch stage with a wait of 5 s and
\* no failed attempt behind it, and a step of one range (a failure, the new wait after
\* its sleep, its exhaustion, its return) changes neither the wait nor the number of
\* failed attempts nor the position of any other range, whether the other range runs at
\* the same time or after it.
C15_RetryStatePerRange ==
    [][\A i \in Idx :
          /\ (InRound /\ pc[i] = "queued" /\ pc'[i] # "queued")
                => pc'[i] = "fetch" /\ base_wait_time'[i] = base_wait /\ fails'[i] = 0
          /\ (InRound /\ Local(i)' # Local(i))
                => \A j \in Idx \ {i} :
                      /\ base_wait_time'[j] = base_wait_time[j]
                      /\ fails'[j] = fails[j]
                      /\ pc'[j] = pc[j]]_vars

\* a range starts at 5 s while another one has backed off twice, at the same time or
\* before it
C15_Witness ==
    /\ \E i, j \in Idx :
          /\ pc[i] = "fetch" /\ fails[i] = 2 /\ base_wait_time[i] >= 20
          /\ pc[j] = "save" /\ fails[j] = 0 /\ base_wait_time[j] = base_wait
    /\ threads = 2

FreshlyFetched(i) == fetch_data_for_range(ranges[i][1], ranges[i][2])
\* C16: a failure in the fetch, archive, normalize or upsert stage that does not exhaust
\* the policy sends the range back to the fetch stage with nothing kept of the failed
\* attempt; the table that reaches the archive is the one that attempt fetched, and the
\* table that reaches the upsert is the normalized form of that same table.
C16_WholeUnitRestart ==
    /\ [](\A i \in Idx : pc[i] = "fetch" => df[i] = <<>> /\ df_prep[i] = <<>>)
    /\ [][\A i \in Idx :
            /\ (InRound /\ fails'[i] = fails[i] + 1 /\ pc'[i] # "raised")
                  => /\ pc[i] \in {"fetch", "save", "prep", "upsert"}
                     /\ pc'[i] = "fetch"
                     /\ df'[i] = <<>> /\ df_prep'[i] = <<>>
            /\ (InRound /\ pc[i] = "fetch" /\ pc'[i] = "save")
                  => df'[i] = FreshlyFetched(i)
            /\ (InRound /\ pc[i] = "prep" /\ pc'[i] = "upsert")
                  => /\ df[i] = object_to_str(FreshlyFetched(i))
                     /\ df_prep'[i] = drop_duplicates(prep(chain, df[i]))]_vars

\* the fifth attempt of a range has fetched, archived and normalized again
C16_Witness ==
    \E i \in Idx : pc[i] = "upsert" /\ fails[i] = 4 /\ df_prep[i] # <<>> /\ store = EmptyTable

DegradationStep ==
    /\ (exhaustions' # exhaustions /\ threads > 1)
          => /\ exhaustions' = exhaustions + 1
             /\ threads' = threads - 1
             /\ dpc' = "sleep" /\ error' = "" /\ calls' = calls
    /\ (exhaustions' # exhaustions /\ threads = 1)
          => /\ exhaustions' = exhaustions + 1
             /\ threads' = 1
             /\ dpc' = "failed" /\ error' = "MaxWaitTimeExceededException"
             /\ slept' = slept /\ calls' = calls
    /\ dpc = "sleep" => dpc' = "loop" /\ slept' = slept + cooldown /\ calls' = calls
    /\ calls' # calls => slept = cooldown * exhaustions
    /\ dpc = "failed" => UNCHANGED vars
\* C17: when the driver catches an exhaustion with threads > 1 it lowers threads by
\* exactly one and sleeps the cooldown of 300 s before it calls extract_raw again (at
\* every call the driver has slept 300 s for each exhaustion so far); with threads = 1 the
\* exhaustion leaves the driver as the error of the run, with no sleep and no further call
\* of extract_raw.
C17_DegradationStep ==
    /\ [][DegradationStep]_vars
    /\ [](Exhausted => threads = 1 /\ calls = exhaustions
                        /\ slept = cooldown * (exhaustions - 1))

\* second call of extract_raw after two reductions and two cooldowns
C17_Witness ==
    /\ dpc = "extract_raw" /\ threads0 = 3 /\ threads = 1
    /\ exhaustions = 2 /\ slept = 2 * cooldown /\ calls = 3

\* C18: when a get_block or get_transaction_receipt call fails, fetch_data_for_range
\* raises and hands no table to its caller: the attempt ends in the except clause with
\* nothing archived and nothing upserted and no record kept, and a fetch that does hand
\* over a table hands over the table of the whole range (or reports the range empty).
FetchFailureStep(i) ==
    /\ (InRound /\ pc[i] = "fetch" /\ Local(i)' # Local(i) /\ envfault' /\ ~envfault)
          => fails'[i] = fails[i] + 1
    /\ (InRound /\ pc[i] = "fetch" /\ fails'[i] = fails[i] + 1)
          => /\ pc'[i] \in {"fetch", "raised"}
             /\ df'[i] = <<>> /\ df_prep'[i] = <<>>
             /\ s3' = s3 /\ store' = store
    /\ (InRound /\ pc[i] = "fetch" /\ pc'[i] \notin {"fetch", "raised"})
          => \/ pc'[i] = "returned" /\ FreshlyFetched(i) = <<>>
             \/ pc'[i] = "save" /\ df'[i] = FreshlyFetched(i)
C18_FetchFailureDiscards ==
    [][\A i \in Idx : FetchFailureStep(i)]_vars

\* a range of two blocks with transactions whose fetch has failed: nothing is archived,
\* nothing is stored, nothing is held
C18_Witness ==
    \E i \in Idx :
        /\ pc[i] = "fetch" /\ fails[i] = 1 /\ envfault
        /\ Len(FreshlyFetched(i)) = 2
        /\ df[i] = <<>> /\ s3 = {} /\ store = EmptyTable

ImmediateErrorStep ==
    /\ (dpc = "loop" /\ dpc' \notin {"loop", "extract_raw"})
          => /\ dpc' = "failed" /\ error' = "ConnectionError"
             /\ threads' = threads /\ exhaustions' = exhaustions /\ slept' = slept
             /\ calls' = calls + 1
             /\ UNCHANGED <<ranges, pc, s3, store>>
    /\ threads' # threads
          => /\ threads' = threads - 1 /\ exhaustions' = exhaustions + 1
             /\ \E i \in Idx : pc[i] = "raised"
    /\ error = "ConnectionError" => UNCHANGED vars
\* C19: when extract_raw raises an error that is not MaxWaitTimeExceededException the
\* run fails at once with that error: threads is unchanged, the driver does not sleep
\* and calls extract_raw no more; threads is lowered only when a range has raised
\* MaxWaitTimeExceededException.
C19_OnlyExhaustionDegrades ==
    /\ [][ImmediateErrorStep]_vars
    /\ [](error = "ConnectionError" => dpc = "failed" /\ slept = cooldown * exhaustions)

\* the second call of extract_raw failed to connect after one degradation
C19_Witness ==
    /\ error = "ConnectionError" /\ dpc = "failed"
    /\ calls = 2 /\ exhaustions = 1 /\ threads0 = 3 /\ threads = 2 /\ slept = cooldown

AbsorbedStep ==
    /\ \A i \in Idx :
          /\ (InRound /\ pc[i] # "returned" /\ pc'[i] = "returned" /\ FreshlyFetched(i) # <<>>)
                => /\ pc[i] = "upsert"
                   /\ store' = upsert_table(store, df_prep[i])
                   /\ fails'[i] = fails[i] /\ fails[i] <= 5
          /\ (InRound /\ fails'[i] # fails[i]) => store' = store
          /\ (InRound /\ pc[i] = "returned") => Local(i)' = Local(i)
    /\ (InRound /\ store' # store) => \E i \in Idx : pc[i] = "upsert" /\ pc'[i] = "returned"
    /\ (dpc = "extract_raw" /\ dpc' # "extract_raw" /\ \A i \in Idx : pc[i] = "returned")
          => /\ dpc' = "success" /\ error' = ""
             /\ threads' = threads /\ exhaustions' = exhaustions /\ slept' = slept
\* C20: a non-empty range whose attempt succeeds after any number of failed attempts (at
\* most 5) returns normally; the store changes in no failed attempt, only in the
\* successful upsert, which is the last step of the call (after it the call does
\* nothing more); and a round whose ranges have all returned, whatever attempts failed
\* before, ends in success: the driver sees no exception, lowers no thread, sleeps not.
C20_TransientAbsorbed ==
    /\ [][AbsorbedStep]_vars
    /\ [](dpc = "success" => error = "" /\ \A i \in Idx : pc[i] = "returned")

\* a run that ends in success with all threads although a range failed five times
C20_Witness ==
    /\ dpc = "success" /\ threads = threads0 /\ exhaustions = 0
    /\ \E i \in Idx : fails[i] = 5 /\ pc[i] = "returned" /\ Loaded(ranges[i][1])

\* C21: every wait handle_retry_exception sleeps (the doubled wait plus the jitter that
\* is added after the test against the ceiling) is below max_wait_time = 300 s, and so is
\* every wait a range holds; a wait is slept only when the doubled wait is below 300 s.
C21_SleptBelowCeiling ==
    /\ [](\A i \in Idx : base_wait_time[i] < max_wait_time)
    /\ [][\A i \in Idx :
            (InRound /\ fails'[i] = fails[i] + 1 /\ pc'[i] # "raised")
                => /\ 2 * base_wait_time[i] < max_wait_time
                   /\ base_wait_time'[i] < max_wait_time]_vars

\* the longest sleep: five failures with full jitter, 5 -> 11 -> 24 -> 52 -> 114 -> 250
C21_Witness ==
    \E i \in Idx : fails[i] = 5 /\ pc[i] = "fetch" /\ base_wait_time[i] > 228

\* C22 (as stated): threads never increases and stays within 1..initial threads, the
\* driver calls extract_raw at most (initial threads) times, and the run ends in success
\* after a call that returned or in failure with the exception raised at threads = 1.
C22_EndsAtBudgetOne ==
    /\ threads \in 1..threads0
    /\ calls <= threads0
    /\ (dpc = "success" => error = "" /\ \A i \in Idx : pc[i] = "returned")
    /\ (dpc = "failed" => threads = 1)

BoundedRunStep ==
    /\ threads' <= threads
    /\ calls' >= calls
    /\ dpc \in {"success", "failed"} => UNCHANGED vars
\* C22 (amended): threads never increases and stays within 1..initial threads (it is
\* the initial value less the exhaustions that lowered it), the driver calls extract_raw
\* at most (initial threads) times, one call more than the exhaustions caught before
\* it, and the run ends, with no step after it, in success after a call that returned, in
\* failure with MaxWaitTimeExceededException raised at threads = 1, or in failure with
\* another exception of extract_raw at whatever value threads has.
C22_BoundedDriverRun ==
    /\ [](/\ threads \in 1..threads0
          /\ calls <= threads0
          /\ calls <= exhaustions + 1
          /\ threads = threads0 - (IF Exhausted THEN exhaustions - 1 ELSE exhaustions)
          /\ (dpc = "success" => error = "" /\ \A i \in Idx : pc[i] = "returned")
          /\ (dpc = "failed" => \/ Exhausted /\ threads = 1
                                \/ error = "ConnectionError"))
    /\ [][BoundedRunStep]_vars

\* the third and last possible call of a run started with three threads has returned
C22_Witness ==
    /\ dpc = "success" /\ threads0 = 3 /\ calls = 3 /\ threads = 1 /\ exhaustions = 2

\* no block of the range holds a transaction
NoTransactions(i) == \A b \in BlocksOf(ranges[i]) : GetBlock(b).transactions = <<>>
\* C23: when the fetch of a range yields no transaction, fetch_and_process_range returns
\* on that attempt: the step leaves bucket and store unchanged, counts no failure, sets
\* no new wait and normalizes nothing; a range without transactions never reaches the
\* archive, normalize or upsert stage, its key never holds an object, and a fetch
\* returns this way only for a range without transactions.
C23_EmptyRange ==
    /\ [](\A i \in Idx :
            NoTransactions(i)
                => /\ pc[i] \in {"queued", "fetch", "returned", "raised"}
                   /\ KeyOf(i) \notin s3
                   /\ df[i] = <<>> /\ df_prep[i] = <<>>)
    /\ [][\A i \in Idx :
            /\ (InRound /\ pc[i] = "fetch" /\ pc'[i] = "returned")
                  => /\ FreshlyFetched(i) = <<>> /\ NoTransactions(i)
                     /\ s3' = s3 /\ store' = store
                     /\ fails'[i] = fails[i]
                     /\ base_wait_time'[i] = base_wait_time[i]
                     /\ df_prep'[i] = <<>>
            /\ (InRound /\ pc[i] = "fetch" /\ pc'[i] # "fetch" /\ fails'[i] = fails[i]
                        /\ NoTransactions(i))
                  => pc'[i] = "returned"]_vars

\* the range [4, 4] holds no transaction: it has returned at its first attempt
C23_Witness ==
    \E i \in Idx :
        /\ pc[i] = "returned" /\ fails[i] = 0 /\ FreshlyFetched(i) = <<>>
        /\ base_wait_time[i] = base_wait /\ KeyOf(i) \notin s3
====
